---- MODULE Spec2Model ----
(***************************************************************************)
(* A model of the E-NOR extension subsystem: the extension version store   *)
(* (core/server/extension_versions.py), the extension registry             *)
(* (core/server/plugin_loader.py), the action dispatcher and the           *)
(* conversational loop (core/server/chat.py) and the feature-request log   *)
(* (core/server/extension_request.py).                                     *)
(***************************************************************************)
EXTENDS Integers, Sequences, FiniteSets, TLC

(***************************************************************************)
(* Bounds of the model.                                                    *)
(***************************************************************************)
MaxTime == 2          \* the clock runs over the seconds 1..MaxTime
MaxContent == 1       \* a file or directory is absent (0) or has content 1..MaxContent
MaxOps == 6           \* backup and restore calls made in one behaviour
MaxChanges == 1       \* changes made to the live tree in one behaviour
MaxStatusCalls == 1   \* set_status calls made in one behaviour

(***************************************************************************)
(* Program constants.                                                      *)
(***************************************************************************)
MaxVersions == 5      \* "Keep only last 5 versions per extension"

VARIABLES
    now,        \* int(datetime.now().timestamp()): the current second
    live,       \* EXTENSIONS_DIR / extension_id: the live tree, or NoDir
    backups,    \* BACKUPS_DIR / extension_id / <version_id>: snapshot trees
    versions,   \* .versions.json: db["extensions"][extension_id]["versions"]
    ops,        \* number of backup and restore calls made so far
    changes,    \* number of changes made to the live tree so far
    statusCalls,\* number of set_status calls made so far
    created,    \* history: number of snapshots recorded in the index so far
    calls,      \* history: number of successive backup() calls on the existing extension
    last,       \* history: the last call, its arguments and its result, and
                \* whether it changed the version list (touched)
    rt,         \* history: progress of the backup/change/backup/restore/restore scenario
    power_undone\* results["power_undone"] of the undo_power action just handled

verVars == <<now, live, backups, versions, ops, changes, statusCalls,
            created, calls, last, rt, power_undone>>

VARIABLES
    pc,             \* "boot" before startup_event has run, "up" afterwards
    disk,           \* EXTENSIONS_DIR: the state of each extension directory
    extensions,     \* _extensions: extension id -> Extension
    voice_triggers, \* _voice_triggers: phrase -> binding, in insertion order
    custom_actions, \* _custom_actions: extension id -> handle_action
    deploys,        \* number of changes made to the extensions directory
    off,            \* history: ids whose last successful set_enabled was false
    dispatched,     \* history: the last dispatch and whether its target was off
    discovered,     \* history: the last discovery and what was registered before it
    toggled         \* history: the last set_extension_enabled call, if it was the
                    \* last operation on the registry

regVars == <<pc, disk, extensions, voice_triggers, custom_actions, deploys,
            off, dispatched, discovered, toggled>>

VARIABLES
    memories,       \* config/memories.json: the list of remembered facts
    actions,        \* the action list handed to handle_actions
    idx,            \* the position handle_actions has reached in that list
    run,            \* "idle", "running", "returned" or "raised"
    handled,        \* history: positions of the actions the loop has dealt with
    end_conversation\* results["end_conversation"]

dispVars == <<memories, actions, idx, run, handled, end_conversation>>

VARIABLES
    conversation,   \* conversations[conv_id] of one conversation id
    in_flight,      \* a chat request has appended its user entry and awaits Claude
    sent,           \* history: the number of entries appended so far
    response        \* history: what the last chat request returned

chatVars == <<conversation, in_flight, sent, response>>

VARIABLES
    requests,       \* config/extension_requests.json: the request log
    built,          \* the folders of extensions/ that hold a manifest.json
    issues,         \* the number of issues the GitHub repository holds
    result          \* history: the last filing and what it returned

reqVars == <<requests, built, issues, result>>

VARIABLES
    motors,             \* what the motor controller was last told: a direction or "stopped"
    sequence_running,   \* motor_control._sequence_running
    sequence_cancel,    \* motor_control._sequence_cancel
    steps,              \* drive steps the running timed movement still has, 0 if none
    game_active,        \* robot_state["game_active"]
    active_panel,       \* the type of robot_state["active_panel"], or "None"
    estop,              \* history: the results of the emergency stop just made
    drive,              \* history: the last motor command and whether it drove
    trend               \* history: how the last start of six_seven_trend ended

robotVars == <<motors, sequence_running, sequence_cancel, steps, game_active,
              active_panel, estop, drive, trend>>

\* The facade's files (extension_api.py).
VARIABLES
    dirs,               \* the directories that exist, as absolute paths
    files,              \* the files that exist, as absolute paths
    access              \* history: the facade call just made and the paths it named

apiVars == <<dirs, files, access>>

\* The WebSocket clients (main.py).
VARIABLES
    connected_clients,  \* main.connected_clients, a list without repetition
    alive,              \* the clients whose connection is still up
    cast                \* the broadcast in progress: its position and its sends

castVars == <<connected_clients, alive, cast>>

\* The remember action (chat.py, memories.py).
VARIABLES
    said                \* history: the remember action just handled

memVars == <<said>>

\* Parsing Claude's reply (chat.py).
VARIABLES
    response_text,      \* the text of Claude's reply, a sequence of characters
    parsed              \* what parse_json_response returned for it, or NotParsed

parseVars == <<response_text, parsed>>

\* The manifests held by snapshots (extension_versions.py).
VARIABLES
    snapshots           \* for each folder, the manifests its snapshots hold

snapVars == <<snapshots>>

VARIABLES
    handler_files,    \* extension folders on disk that hold a handler.py
    _api_instances,   \* id -> "none", or the latest facade: "bare" or "wired"
    started,          \* startup_event has run
    facade_call       \* the last call made through a facade

wireVars == <<handler_files, _api_instances, started, facade_call>>

vars == <<verVars, regVars, dispVars, chatVars, reqVars, robotVars, apiVars, castVars, memVars, parseVars, snapVars, wireVars>>

\* What each part of the program leaves alone.
VerFrame == UNCHANGED <<regVars, dispVars, chatVars, reqVars, robotVars, apiVars, castVars, memVars, parseVars, snapVars, wireVars>>

RegFrame == UNCHANGED <<verVars, dispVars, chatVars, reqVars, robotVars, apiVars, castVars, memVars, parseVars, snapVars, wireVars>>

DispFrame == UNCHANGED <<verVars, chatVars, reqVars, robotVars, apiVars, castVars, memVars, parseVars, snapVars, wireVars>>

ChatFrame == UNCHANGED <<verVars, regVars, dispVars, reqVars, robotVars, apiVars, castVars, memVars, parseVars, snapVars, wireVars>>

ReqFrame == UNCHANGED <<verVars, regVars, dispVars, chatVars, robotVars, apiVars, castVars, memVars, parseVars, snapVars, wireVars>>

CoreFrame == UNCHANGED <<verVars, regVars, dispVars, chatVars, reqVars, apiVars, castVars, memVars, parseVars, snapVars, wireVars>>

ApiFrame == UNCHANGED <<verVars, regVars, dispVars, chatVars, reqVars, robotVars, castVars, memVars, parseVars, snapVars, wireVars>>

CastFrame == UNCHANGED <<verVars, regVars, dispVars, chatVars, reqVars, robotVars, apiVars, memVars, parseVars, snapVars, wireVars>>

MemFrame ==
    UNCHANGED <<verVars, regVars, actions, idx, run, handled, end_conversation,
                chatVars, reqVars, robotVars, apiVars, castVars, parseVars, snapVars,
                wireVars>>

ParseFrame == UNCHANGED <<verVars, regVars, dispVars, chatVars, reqVars, robotVars, apiVars, castVars, memVars, snapVars, wireVars>>

SnapFrame == UNCHANGED <<verVars, dispVars, chatVars, reqVars, robotVars, apiVars, castVars, memVars, parseVars, wireVars>>

WireFrame == UNCHANGED <<verVars, regVars, dispVars, chatVars, reqVars, robotVars, apiVars, castVars, memVars, parseVars, snapVars>>

RobotFrame == CoreFrame

(***************************************************************************)
(* File trees.  An extension directory holds a regular file "f" (such as   *)
(* manifest.json), a hidden file "h" and a subdirectory "d" (such as       *)
(* data/).  Each is absent (0) or has a content.  Hidden subdirectories    *)
(* are left out: neither backup nor restore reads or writes them.          *)
(***************************************************************************)
Content == 0..MaxContent

\* A directory that does not exist, and one that exists and is empty.
NoDir == [exists |-> FALSE, f |-> 0, h |-> 0, d |-> 0]

EmptyTree == [exists |-> TRUE, f |-> 0, h |-> 0, d |-> 0]

Tree == [exists : {TRUE}, f : Content, h : Content, d : Content]

Times == 1..MaxTime


\* The content of the directory `dst` after the items in `which` of `src`
\* have been copied into it: shutil.copy2 overwrites a file that is there.
CopyItems(dst, src, which) ==
    [exists |-> TRUE,
     f  |-> IF "f" \in which /\ src.f # 0 THEN src.f ELSE dst.f,
     h  |-> IF "h" \in which /\ src.h # 0 THEN src.h ELSE dst.h,
     d  |-> IF "d" \in which /\ src.d # 0 THEN src.d ELSE dst.d]

\* shutil.copytree raises FileExistsError when its target directory exists.
CopytreeRaises(dst, src) == src.d # 0 /\ dst.d # 0

\* version_entry of backup_extension; seq stands for created_at, which orders
\* the entries by creation.
VersionEntry(vid, desc, seq) ==
    [version_id |-> vid, description |-> desc, status |-> "working",
     is_current |-> FALSE, seq |-> seq]

ManualBackup == [kind |-> "manual", to |-> 0]

BeforeRollback(vid) == [kind |-> "rollback", to |-> vid]

\* "Mark all previous as not current"
ClearCurrent(vs) == [i \in 1..Len(vs) |-> [vs[i] EXCEPT !.is_current = FALSE]]

\* backup_extension(extension_id, description) called at second t on the live
\* tree lv, snapshot store bk and version list vs.  `first` is the set of files
\* that iterdir() yields before the subdirectory whose copy raises.  The result
\* holds the new store, the new list and the value returned (0 for None).
backup_extension(bk, vs, lv, t, desc, first, seq) ==
    IF lv = NoDir
    THEN [backups |-> bk, versions |-> vs, ret |-> 0]
    ELSE LET dir0 == IF bk[t] = NoDir THEN EmptyTree ELSE bk[t]
         IN  IF CopytreeRaises(dir0, lv)
             THEN [backups  |-> [bk EXCEPT ![t] = CopyItems(dir0, lv, first)],
                   versions |-> vs,
                   ret      |-> 0]
             ELSE LET bk1 == [bk EXCEPT ![t] = CopyItems(dir0, lv, {"f", "h", "d"})]
                      vs1 == Append(ClearCurrent(vs), VersionEntry(t, desc, seq))
                  IN  IF Len(vs1) > MaxVersions
                      THEN [backups  |-> [bk1 EXCEPT ![Head(vs1).version_id] = NoDir],
                            versions |-> Tail(vs1),
                            ret      |-> t]
                      ELSE [backups |-> bk1, versions |-> vs1, ret |-> t]

\* get_extension_versions(extension_id): the list, oldest first.
get_extension_versions == versions


Statuses == {"working", "broken", "testing"}

NoCall ==
    [op |-> "none", vid |-> 0, ret |-> 0, before |-> NoDir, seq |-> 0,
     touched |-> FALSE, listed |-> FALSE]

NoScenario == [stage |-> 0, c1 |-> NoDir, c2 |-> NoDir, s1 |-> 0]

NoUndo == [called |-> FALSE, had |-> FALSE, success |-> FALSE, error |-> "",
           same |-> FALSE]

VerInit ==
    /\ now = 1
    /\ live \in {t \in Tree : t.f # 0 /\ t.h = 0}
    /\ backups = [t \in Times |-> NoDir]
    /\ versions = <<>>
    /\ ops = 0
    /\ changes = 0
    /\ statusCalls = 0
    /\ created = 0
    /\ calls = 0
    /\ last = NoCall
    /\ rt = NoScenario
    /\ power_undone = NoUndo

\* The clock moves on to the next second.
Tick ==
    /\ VerFrame
    /\ power_undone' = NoUndo
    /\ now < MaxTime
    /\ now' = now + 1
    /\ UNCHANGED <<live, backups, versions, ops, changes, statusCalls,
                   created, calls, last, rt>>

\* The scenario of the rollback round trip: backup (1), change (2),
\* backup (3), restore of the first snapshot (4), restore of the last entry (5).
ScenarioAfterBackup(ret) ==
    IF ret = 0 THEN NoScenario
    ELSE IF rt.stage = 2 THEN [rt EXCEPT !.stage = 3]
    ELSE [stage |-> 1, c1 |-> live, c2 |-> NoDir, s1 |-> ret]

ScenarioAfterChange(tree) ==
    IF rt.stage \in {1, 2} THEN [rt EXCEPT !.stage = 2, !.c2 = tree]
    ELSE NoScenario

ScenarioAfterRestore(vid, ok) ==
    IF ok /\ rt.stage = 3 /\ vid = rt.s1 THEN [rt EXCEPT !.stage = 4]
    ELSE IF ok /\ rt.stage = 4 /\ versions # <<>>
            /\ vid = versions[Len(versions)].version_id
         THEN [rt EXCEPT !.stage = 5]
    ELSE NoScenario

\* POST /api/extension-versions/{id}/backup
create_extension_backup ==
    /\ VerFrame
    /\ power_undone' = NoUndo
    /\ ops < MaxOps
    /\ \E first \in SUBSET {"f", "h"} :
         LET r == backup_extension(backups, versions, live, now, ManualBackup,
                                   first, created + 1)
         IN  /\ backups' = r.backups
             /\ versions' = r.versions
             /\ created' = IF r.ret # 0 THEN created + 1 ELSE created
             /\ last' = [op |-> "backup", vid |-> 0, ret |-> r.ret,
                         before |-> live, seq |-> created + 1,
                         touched |-> r.versions # versions, listed |-> FALSE]
             /\ rt' = ScenarioAfterBackup(r.ret)
    /\ calls' = IF live.exists THEN calls + 1 ELSE 0
    /\ ops' = ops + 1
    /\ UNCHANGED <<now, live, changes, statusCalls>>

\* The live tree of the extension is changed (git pull of a new release of
\* the extension, or the extension writing below its directory).
ChangeLive ==
    /\ VerFrame
    /\ power_undone' = NoUndo
    /\ changes < MaxChanges
    /\ \E tree \in Tree :
         /\ tree # live
         /\ Cardinality({k \in {"f", "h", "d"} :
                            tree[k] # (IF live.exists THEN live ELSE EmptyTree)[k]}) <= 1
         /\ live' = tree
         /\ rt' = ScenarioAfterChange(tree)
    /\ last' = [NoCall EXCEPT !.op = "change", !.before = live]
    /\ changes' = changes + 1
    /\ UNCHANGED <<now, backups, versions, ops, statusCalls, created, calls>>


\* "Clear current extension (except hidden files)", or mkdir when it is missing.
ClearLive(lv) == IF lv.exists THEN [lv EXCEPT !.f = 0, !.d = 0] ELSE EmptyTree

\* "Update versions database" of restore_extension.
MarkCurrent(vs, vid) ==
    [i \in 1..Len(vs) |-> [vs[i] EXCEPT !.is_current = (vs[i].version_id = vid)]]

\* The index of the first entry of vs whose version_id is vid, 0 if none.
FirstWithId(vs, vid) ==
    IF \E i \in 1..Len(vs) : vs[i].version_id = vid
    THEN CHOOSE i \in 1..Len(vs) :
            /\ vs[i].version_id = vid
            /\ \A j \in 1..(i - 1) : vs[j].version_id # vid
    ELSE 0

\* restore_extension(extension_id, vid); `first` is as in backup_extension.
restore_extension(vid, first) ==
    IF ~backups[vid].exists
    THEN /\ last' = [op |-> "restore", vid |-> vid, ret |-> 0,
                     before |-> live, seq |-> 0, touched |-> FALSE,
                     listed |-> FirstWithId(versions, vid) # 0]
         /\ rt' = ScenarioAfterRestore(vid, FALSE)
         /\ UNCHANGED <<live, backups, versions, created>>
    ELSE LET b == backup_extension(backups, versions, live, now,
                                   BeforeRollback(vid), first, created + 1)
             snap == b.backups[vid]
             ok == snap.exists
         IN  /\ backups' = b.backups
             /\ created' = IF b.ret # 0 THEN created + 1 ELSE created
             /\ live' = IF ok
                        THEN CopyItems(ClearLive(live), snap, {"f", "h", "d"})
                        ELSE ClearLive(live)
             /\ versions' = IF ok THEN MarkCurrent(b.versions, vid)
                            ELSE b.versions
             /\ last' = [op |-> "restore", vid |-> vid,
                         ret |-> IF ok THEN 1 ELSE 0,
                         before |-> live,
                         seq |-> IF b.ret # 0 THEN created + 1 ELSE 0,
                         touched |-> versions' # versions,
                         listed |-> FirstWithId(versions, vid) # 0]
             /\ rt' = ScenarioAfterRestore(vid, ok)

\* POST /api/extension-versions/{id}/rollback/{version_id}
rollback_extension ==
    /\ VerFrame
    /\ ops < MaxOps
    /\ \E vid \in Times, first \in SUBSET {"f", "h"} : restore_extension(vid, first)
    /\ power_undone' = NoUndo
    /\ calls' = 0
    /\ ops' = ops + 1
    /\ UNCHANGED <<now, changes, statusCalls>>

\* undo_power that takes a snapshot of the live tree before it looks for the
\* versions.
undo_power_eager ==
    /\ VerFrame
    /\ ops < MaxOps
    /\ LET b == backup_extension(backups, versions, live, now, ManualBackup,
                                 {}, created + 1)
       IN  /\ backups' = b.backups
           /\ versions' = b.versions
           /\ created' = IF b.ret # 0 THEN created + 1 ELSE created
           /\ power_undone' =
                  [called |-> TRUE, had |-> versions # <<>>, success |-> FALSE,
                   error |-> "No previous version to restore",
                   same |-> backups' = backups /\ versions' = versions]
    /\ last' = [NoCall EXCEPT !.op = "undo"]
    /\ rt' = NoScenario
    /\ calls' = 0
    /\ ops' = ops + 1
    /\ UNCHANGED <<now, live, changes, statusCalls>>

\* handle_actions, type "undo_power", for the registered extension: the latest
\* entry of the version list is restored, or the action fails without one.
undo_power ==
    /\ VerFrame
    /\ ops < MaxOps
    /\ LET vs == get_extension_versions
       IN  IF Len(vs) > 0
           THEN /\ \E first \in SUBSET {"f", "h"} :
                     restore_extension(vs[Len(vs)].version_id, first)
                /\ power_undone' =
                       [called |-> TRUE, had |-> TRUE, success |-> last'.ret = 1,
                        error |-> "",
                        same |-> /\ live' = live
                                 /\ backups' = backups
                                 /\ versions' = versions]
           ELSE /\ last' = [NoCall EXCEPT !.op = "undo"]
                /\ rt' = NoScenario
                /\ UNCHANGED <<live, backups, versions, created>>
                /\ power_undone' =
                       [called |-> TRUE, had |-> FALSE, success |-> FALSE,
                        error |-> "No previous version to restore",
                        same |-> /\ live' = live
                                 /\ backups' = backups
                                 /\ versions' = versions]
    /\ calls' = 0
    /\ ops' = ops + 1
    /\ UNCHANGED <<now, changes, statusCalls>>

\* PUT /api/extension-versions/{id}/{version_id}/status
set_version_status ==
    /\ VerFrame
    /\ power_undone' = NoUndo
    /\ statusCalls < MaxStatusCalls
    /\ \E vid \in Times, status \in Statuses :
         LET i == FirstWithId(versions, vid)
         IN  /\ versions' = IF i = 0 THEN versions
                            ELSE [versions EXCEPT ![i].status = status]
             /\ last' = [NoCall EXCEPT !.op = "set_status", !.vid = vid,
                                       !.ret = IF i = 0 THEN 0 ELSE 1,
                                       !.before = live]
    /\ rt' = NoScenario
    /\ statusCalls' = statusCalls + 1
    /\ UNCHANGED <<now, live, backups, ops, changes, created, calls>>

\* DELETE /api/extensions/{id}: shutil.rmtree(ext.path)
remove_extension ==
    /\ VerFrame
    /\ power_undone' = NoUndo
    /\ changes < MaxChanges
    /\ live.exists
    /\ live' = NoDir
    /\ last' = [NoCall EXCEPT !.op = "delete", !.before = live]
    /\ rt' = NoScenario
    /\ calls' = 0
    /\ changes' = changes + 1
    /\ UNCHANGED <<now, backups, versions, ops, statusCalls, created>>

VerNext ==
    \/ Tick
    \/ create_extension_backup
    \/ ChangeLive
    \/ rollback_extension
    \/ undo_power
    \/ set_version_status
    \/ remove_extension



(***************************************************************************)
(* The extension registry (plugin_loader.py).  The extensions directory    *)
(* holds the folders Dirs; the manifest of a folder may override the id.   *)
(***************************************************************************)
MaxDeploys == 1       \* changes made to the extensions directory in one behaviour

Dirs == {"a", "b"}

Ids == {"a", "b"}

\* A folder is absent, present without a valid manifest.json, or present with
\* a manifest ("ok"): then id and enabled are the manifest's fields, and
\* handler tells whether handler.py defines handle_action.
AbsentDir(d) == [kind |-> "absent", id |-> d, enabled |-> TRUE, handler |-> FALSE]

NoManifestDir(d) == [kind |-> "nomanifest", id |-> d, enabled |-> TRUE, handler |-> FALSE]

DirStates(d) ==
    {AbsentDir(d), NoManifestDir(d)} \cup
    [kind : {"ok"}, id : Ids, enabled : BOOLEAN, handler : BOOLEAN]

\* The voice trigger phrase that the manifest of a folder declares.
Phrase(d) == IF d = "a" THEN "meow" ELSE "woof"

NotLoaded(i) == [loaded |-> FALSE, path |-> i, enabled |-> TRUE]

NoExtensions == [i \in Ids |-> NotLoaded(i)]

NoCustomActions == [i \in Ids |-> "none"]

NoDispatch == [kind |-> "none", ext |-> "none", wasOff |-> FALSE]

NoDiscovery == [fresh |-> FALSE, before |-> {}, list |-> <<>>]

NoToggle == [id |-> "none", enabled |-> FALSE, ret |-> FALSE, afterOff |-> FALSE]

RegInit ==
    /\ pc = "boot"
    /\ disk \in [Dirs -> [kind : {"ok"}, id : Ids, enabled : {TRUE}, handler : BOOLEAN]]
    /\ \A d \in Dirs : disk[d].id = d
    /\ extensions = NoExtensions
    /\ voice_triggers = <<>>
    /\ custom_actions = NoCustomActions
    /\ deploys = 0
    /\ off = {}
    /\ dispatched = NoDispatch
    /\ discovered = NoDiscovery
    /\ toggled = NoToggle

\* The registry of a process that has not started and finds no extensions.
RegIdle ==
    /\ pc = "boot"
    /\ disk = [d \in Dirs |-> AbsentDir(d)]
    /\ extensions = NoExtensions
    /\ voice_triggers = <<>>
    /\ custom_actions = NoCustomActions
    /\ deploys = 0
    /\ off = {}
    /\ dispatched = NoDispatch
    /\ discovered = NoDiscovery
    /\ toggled = NoToggle

\* _voice_triggers[phrase] = binding: a dict keeps the position of a key that
\* is assigned again.
PutTrigger(vt, phrase, binding) ==
    IF \E i \in 1..Len(vt) : vt[i].phrase = phrase
    THEN [i \in 1..Len(vt) |-> IF vt[i].phrase = phrase THEN binding ELSE vt[i]]
    ELSE Append(vt, binding)

\* A registry that keeps the record it already has for an id.
RegisterIfNew(exts, d) ==
    IF exts[disk[d].id].loaded THEN exts
    ELSE [exts EXCEPT ![disk[d].id] =
             [loaded |-> TRUE, path |-> d, enabled |-> disk[d].enabled]]

\* _extensions[extension.id] = extension
Register(exts, d) ==
    [exts EXCEPT ![disk[d].id] =
        [loaded |-> TRUE, path |-> d, enabled |-> disk[d].enabled]]

\* load_single_extension over the folders in the order iterdir() yields them:
\* fills _extensions and _custom_actions and collects the list of extensions.
RECURSIVE LoadAll(_, _, _, _)
LoadAll(order, exts, acts, list) ==
    IF order = <<>>
    THEN [extensions |-> exts, custom_actions |-> acts, list |-> list]
    ELSE LET d == Head(order)
         IN  IF disk[d].kind # "ok"
             THEN LoadAll(Tail(order), exts, acts, list)
             ELSE LoadAll(Tail(order),
                          Register(exts, d),
                          IF disk[d].handler
                          THEN [acts EXCEPT ![disk[d].id] = d] ELSE acts,
                          Append(list, [id |-> disk[d].id, path |-> d]))

\* "Register all voice triggers"
RECURSIVE RegisterTriggers(_, _)
RegisterTriggers(list, vt) ==
    IF list = <<>> THEN vt
    ELSE RegisterTriggers(Tail(list),
             PutTrigger(vt, Phrase(Head(list).path),
                        [phrase |-> Phrase(Head(list).path),
                         extension_id |-> Head(list).id]))

Orders == {<<"a", "b">>, <<"b", "a">>}

Loaded == {i \in Ids : extensions[i].loaded}

\* The ids that count as switched off after a discovery: an id that is loaded
\* as enabled is no longer off.
OffAfter(exts) == {i \in off : ~(exts[i].loaded /\ exts[i].enabled)}

\* discover_extensions() on the tables exts, vt, acts.
discover_extensions(order, exts, vt, acts) ==
    LET r == LoadAll(order, exts, acts, <<>>)
    IN  /\ extensions' = r.extensions
        /\ custom_actions' = r.custom_actions
        /\ voice_triggers' = RegisterTriggers(r.list, vt)
        /\ discovered' = [fresh |-> TRUE, before |-> Loaded, list |-> r.list]
        /\ toggled' = NoToggle
        /\ off' = OffAfter(r.extensions)

\* startup_event: init_extensions()
init_extensions ==
    /\ RegFrame
    /\ pc = "boot"
    /\ pc' = "up"
    /\ \E order \in Orders :
         discover_extensions(order, extensions, voice_triggers, custom_actions)
    /\ dispatched' = NoDispatch
    /\ UNCHANGED <<disk, deploys>>

\* reload_extensions without its three clear() calls.
reload_keeping_tables ==
    /\ RegFrame
    /\ pc = "up"
    /\ \E order \in Orders :
         discover_extensions(order, extensions, voice_triggers, custom_actions)
    /\ dispatched' = NoDispatch
    /\ UNCHANGED <<pc, disk, deploys>>

\* POST /api/extensions/reload: the three tables are cleared, then the
\* extensions directory is scanned.
reload_extensions ==
    /\ RegFrame
    /\ pc = "up"
    /\ \E order \in Orders :
         discover_extensions(order, NoExtensions, <<>>, NoCustomActions)
    /\ dispatched' = NoDispatch
    /\ UNCHANGED <<pc, disk, deploys>>

\* A release is pulled, or a requested extension is delivered: one folder of
\* the extensions directory changes.
Deploy ==
    /\ RegFrame
    /\ deploys < MaxDeploys
    /\ \E d \in Dirs : \E st \in DirStates(d) :
         /\ st # disk[d]
         /\ disk' = [disk EXCEPT ![d] = st]
    /\ deploys' = deploys + 1
    /\ discovered' = NoDiscovery
    /\ toggled' = NoToggle
    /\ dispatched' = NoDispatch
    /\ UNCHANGED <<pc, extensions, voice_triggers, custom_actions, off>>

\* set_extension_enabled that sets the in-memory flag and leaves the manifest
\* file as it is.
SetEnabledInMemory(id, enabled, written) ==
    IF ~extensions[id].loaded
    THEN /\ toggled' = [NoToggle EXCEPT !.id = id, !.enabled = enabled]
         /\ UNCHANGED <<extensions, disk, off>>
    ELSE LET path == extensions[id].path
             ok == disk[path].kind # "absent" /\ written
         IN  /\ extensions' = [extensions EXCEPT ![id].enabled = enabled]
             /\ toggled' = [id |-> id, enabled |-> enabled, ret |-> ok,
                            afterOff |-> /\ toggled.id = id
                                         /\ toggled.ret
                                         /\ ~toggled.enabled
                                         /\ enabled]
             /\ UNCHANGED disk
             /\ IF ~ok
                THEN UNCHANGED off
                ELSE off' = IF enabled THEN off \ {id} ELSE off \cup {id}

\* set_extension_enabled(id, enabled): the in-memory flag is set, then the
\* manifest is rewritten; the write fails when the folder is gone or when the
\* file cannot be opened for writing (written = FALSE).
SetEnabled(id, enabled, written) ==
    IF ~extensions[id].loaded
    THEN /\ toggled' = [NoToggle EXCEPT !.id = id, !.enabled = enabled]
         /\ UNCHANGED <<extensions, disk, off>>
    ELSE LET path == extensions[id].path
             ok == disk[path].kind # "absent" /\ written
         IN  /\ extensions' = [extensions EXCEPT ![id].enabled = enabled]
             /\ toggled' = [id |-> id, enabled |-> enabled, ret |-> ok,
                            afterOff |-> /\ toggled.id = id
                                         /\ toggled.ret
                                         /\ ~toggled.enabled
                                         /\ enabled]
             /\ IF ~ok
                THEN UNCHANGED <<disk, off>>
                ELSE /\ disk' = [disk EXCEPT ![path] =
                                   [kind |-> "ok", id |-> id, enabled |-> enabled,
                                    handler |-> disk[path].handler]]
                     /\ off' = IF enabled THEN off \ {id} ELSE off \cup {id}

\* PUT /api/extensions/{id}/enabled
set_extension_enabled ==
    /\ RegFrame
    /\ pc = "up"
    /\ \E id \in Ids, enabled \in BOOLEAN, written \in BOOLEAN :
         SetEnabled(id, enabled, written)
    /\ discovered' = NoDiscovery
    /\ dispatched' = NoDispatch
    /\ UNCHANGED <<pc, voice_triggers, custom_actions, deploys>>

\* delete_extension(id)
delete_extension ==
    /\ RegFrame
    /\ pc = "up"
    /\ \E id \in Ids :
         IF extensions[id].loaded /\ disk[extensions[id].path].kind # "absent"
         THEN /\ disk' = [disk EXCEPT ![extensions[id].path] =
                            AbsentDir(extensions[id].path)]
              /\ extensions' = [extensions EXCEPT ![id] = NotLoaded(id)]
         ELSE UNCHANGED <<disk, extensions>>
    /\ discovered' = NoDiscovery
    /\ toggled' = NoToggle
    /\ dispatched' = NoDispatch
    /\ UNCHANGED <<pc, voice_triggers, custom_actions, deploys, off>>

Texts == {"meow", "WOOF", "meow woof", "hello"}

\* text.lower().strip()
Lower(text) == IF text = "WOOF" THEN "woof" ELSE text

\* phrase in text_lower
Contains(text, phrase) == text = phrase \/ text = "meow woof"

\* check_voice_trigger(text): the extension id of the binding, "none" for None.
check_voice_trigger(text) ==
    LET t == Lower(text)
        vt == voice_triggers
    IN  IF \E i \in 1..Len(vt) : vt[i].phrase = t
        THEN vt[CHOOSE i \in 1..Len(vt) : vt[i].phrase = t].extension_id
        ELSE IF \E i \in 1..Len(vt) : Contains(t, vt[i].phrase)
        THEN vt[CHOOSE i \in 1..Len(vt) :
                    /\ Contains(t, vt[i].phrase)
                    /\ \A j \in 1..(i - 1) : ~Contains(t, vt[j].phrase)].extension_id
        ELSE "none"

\* A caller checks an utterance against the voice triggers.
VoiceTrigger ==
    /\ RegFrame
    /\ pc = "up"
    /\ \E text \in Texts :
         LET ext == check_voice_trigger(text)
         IN  dispatched' = [kind |-> "voice", ext |-> ext, wasOff |-> ext \in off]
    /\ discovered' = NoDiscovery
    /\ toggled' = NoToggle
    /\ UNCHANGED <<pc, disk, extensions, voice_triggers, custom_actions, deploys, off>>

\* execute_custom_action(id, action): the id whose handler runs, or "none".
execute_custom_action(id) == IF custom_actions[id] # "none" THEN id ELSE "none"

ModeNames == Ids \cup {"zzz"}

\* handle_actions, type "activate_mode": the extension whose name or id is
\* mode_name is looked up among all extensions and its handler is called.
activate_mode ==
    /\ RegFrame
    /\ pc = "up"
    /\ \E mode_name \in ModeNames :
         LET found == mode_name \in Ids /\ extensions[mode_name].loaded
             ext == IF found THEN execute_custom_action(mode_name) ELSE "none"
         IN  dispatched' = [kind |-> "mode", ext |-> ext, wasOff |-> ext \in off]
    /\ discovered' = NoDiscovery
    /\ toggled' = NoToggle
    /\ UNCHANGED <<pc, disk, extensions, voice_triggers, custom_actions, deploys, off>>

RegNext ==
    \/ init_extensions
    \/ reload_extensions
    \/ Deploy
    \/ set_extension_enabled
    \/ delete_extension
    \/ VoiceTrigger
    \/ activate_mode

(***************************************************************************)
(* Motors, Robot State and the emergency stop (motor_control.py, main.py,  *)
(* controller_api.py, extensions/six_seven_trend/handler.py).              *)
(***************************************************************************)
MaxSteps == 2         \* steps of one movement sequence

Directions == {"forward", "backward", "left", "right"}

\* The names that "from .motor_control import ..." can find: the module's
\* top-level definitions.
MotorControlNames ==
    {"get_motor_status", "motor_forward", "motor_backward", "motor_left",
     "motor_right", "motor_stop", "set_motor_speed", "get_calibration",
     "calculate_move_duration", "calculate_turn_duration",
     "execute_timed_movement", "motor_move", "motor_turn", "motor_sequence",
     "motor_cancel", "get_sequence_status"}

\* The names that "from .extension_api import ..." can find.
ExtensionApiNames ==
    {"ExtensionAPI", "get_extension_api", "set_broadcast_function",
     "set_speak_function", "ExtensionHandler"}

\* The methods of class ExtensionAPI.
ExtensionApiMethods ==
    {"speak", "show_message", "broadcast", "set_emotion", "show_face_overlay",
     "hide_face_overlay", "set_mode", "show_panel", "hide_panel",
     "update_panel", "play_sound", "_ensure_data_dir", "get_data", "set_data",
     "delete_data", "get_all_data", "get_config", "get_child_name",
     "get_child_age", "get_robot_name", "get_memories", "add_memory", "move",
     "ask_claude", "get_asset_path", "read_asset", "read_json_asset"}

NoStop ==
    [kind |-> "none", extensions_reset |-> FALSE, motors_stopped |-> FALSE,
     sequences_cancelled |-> FALSE]

NoDrive == [cmd |-> "none", in_game |-> FALSE, drove |-> FALSE]

PanelTypes == {"game", "tool"}

RobotInit ==
    /\ motors = "stopped"
    /\ sequence_running = FALSE
    /\ sequence_cancel = FALSE
    /\ steps = 0
    /\ game_active = FALSE
    /\ active_panel = "None"
    /\ estop = NoStop
    /\ drive = NoDrive
    /\ trend = "none"

\* POST /api/motor/forward, /backward, /left, /right
motor_forward ==
    /\ RobotFrame
    /\ \E direction \in Directions :
         /\ motors' = direction
         /\ drive' = [cmd |-> direction, in_game |-> game_active, drove |-> TRUE]
    /\ estop' = NoStop
    /\ UNCHANGED <<sequence_running, sequence_cancel, steps, game_active, active_panel, trend>>

\* POST /api/motor/stop
motor_stop ==
    /\ RobotFrame
    /\ motors # "stopped"
    /\ motors' = "stopped"
    /\ estop' = NoStop
    /\ drive' = NoDrive
    /\ UNCHANGED <<sequence_running, sequence_cancel, steps, game_active, active_panel, trend>>

\* POST /api/motor/move, /turn (one step) and /sequence, up to the first
\* sleep of execute_timed_movement: refused while a sequence is running.
motor_sequence ==
    /\ RobotFrame
    /\ \E n \in 1..MaxSteps, direction \in Directions :
         IF sequence_running
         THEN /\ drive' = [cmd |-> "sequence", in_game |-> game_active,
                           drove |-> FALSE]
              /\ UNCHANGED <<motors, sequence_running, sequence_cancel, steps>>
         ELSE /\ sequence_running' = TRUE
              /\ sequence_cancel' = FALSE
              /\ steps' = n
              /\ motors' = direction
              /\ drive' = [cmd |-> "sequence", in_game |-> game_active,
                           drove |-> TRUE]
    /\ estop' = NoStop
    /\ UNCHANGED <<game_active, active_panel, trend>>

\* execute_timed_movement leaves its wait (the duration has elapsed, or
\* _sequence_cancel is set) and stops the motors; then the sequence drives
\* its next step, or the request ends and _sequence_running is reset.
execute_timed_movement ==
    /\ RobotFrame
    /\ steps > 0
    /\ IF steps > 1 /\ ~sequence_cancel
       THEN /\ \E direction \in Directions : motors' = direction
            /\ steps' = steps - 1
            /\ UNCHANGED sequence_running
       ELSE /\ motors' = "stopped"
            /\ steps' = 0
            /\ sequence_running' = FALSE
    /\ estop' = NoStop
    /\ drive' = NoDrive
    /\ UNCHANGED <<sequence_cancel, game_active, active_panel, trend>>

\* POST /api/motor/cancel
motor_cancel ==
    /\ RobotFrame
    /\ sequence_cancel' = TRUE
    /\ motors' = "stopped"
    /\ estop' = NoStop
    /\ drive' = NoDrive
    /\ UNCHANGED <<sequence_running, steps, game_active, active_panel, trend>>

\* POST /api/controller/emergency-stop: each step sits in its own try/except,
\* and a failing import skips the step.
emergency_stop ==
    /\ RobotFrame
    /\ LET signalled == "reset_all_extensions" \in ExtensionApiNames
           stopped == {"stop_motors", "cancel_sequence"} \subseteq MotorControlNames
           cancelled == "cancel_sequence" \in MotorControlNames
       IN  /\ motors' = IF stopped THEN "stopped" ELSE motors
           /\ sequence_cancel' = IF cancelled THEN TRUE ELSE sequence_cancel
           /\ estop' = [kind |-> "endpoint", extensions_reset |-> signalled,
                        motors_stopped |-> stopped,
                        sequences_cancelled |-> cancelled]
    /\ game_active' = FALSE
    /\ active_panel' = "None"
    /\ drive' = NoDrive
    /\ UNCHANGED <<sequence_running, steps, trend>>

\* handle_message, type "emergency_stop"
ws_emergency_stop ==
    /\ RobotFrame
    /\ estop' = [NoStop EXCEPT !.kind = "message",
                               !.extensions_reset =
                                   "reset_all_extensions" \in ExtensionApiNames]
    /\ game_active' = FALSE
    /\ active_panel' = "None"
    /\ drive' = NoDrive
    /\ UNCHANGED <<motors, sequence_running, sequence_cancel, steps, trend>>

\* handle_message, type "panel_opened"
panel_opened ==
    /\ RobotFrame
    /\ \E panelType \in PanelTypes :
         /\ active_panel' = panelType
         /\ game_active' = IF panelType = "game" THEN TRUE ELSE game_active
    /\ estop' = NoStop
    /\ drive' = NoDrive
    /\ UNCHANGED <<motors, sequence_running, sequence_cancel, steps, trend>>

\* handle_message, type "panel_closed"
panel_closed ==
    /\ RobotFrame
    /\ active_panel' = "None"
    /\ game_active' = FALSE
    /\ estop' = NoStop
    /\ drive' = NoDrive
    /\ UNCHANGED <<motors, sequence_running, sequence_cancel, steps, trend>>

\* handle_message, type "close_panel"
close_panel ==
    /\ RobotFrame
    /\ active_panel' = "None"
    /\ game_active' = FALSE
    /\ estop' = NoStop
    /\ drive' = NoDrive
    /\ UNCHANGED <<motors, sequence_running, sequence_cancel, steps, trend>>

\* handle_message, type "dance_move": the motor functions are imported inside
\* a try/except.
dance_move ==
    /\ RobotFrame
    /\ \E direction \in Directions \cup {"stop"} :
         LET name == IF direction = "stop" THEN "stop_motors" ELSE "set_direction"
             found == name \in MotorControlNames
         IN  /\ motors' = IF ~found THEN motors
                          ELSE IF direction = "stop" THEN "stopped" ELSE direction
             /\ drive' = [cmd |-> "dance_move", in_game |-> game_active,
                          drove |-> found /\ direction # "stop"]
    /\ estop' = NoStop
    /\ UNCHANGED <<sequence_running, sequence_cancel, steps, game_active, active_panel, trend>>

\* handle_action("start_six_seven_trend"): its first statement is
\* api.clear_stop_flag(); without that method the handler raises there and
\* no chant task is created.
start_six_seven_trend ==
    /\ RobotFrame
    /\ trend' = IF "clear_stop_flag" \in ExtensionApiMethods
                THEN "chanting" ELSE "raised"
    /\ estop' = NoStop
    /\ drive' = NoDrive
    /\ UNCHANGED <<motors, sequence_running, sequence_cancel, steps, game_active, active_panel>>

RobotNext ==
    \/ motor_forward
    \/ motor_stop
    \/ motor_sequence
    \/ execute_timed_movement
    \/ motor_cancel
    \/ emergency_stop
    \/ ws_emergency_stop
    \/ panel_opened
    \/ panel_closed
    \/ close_panel
    \/ dance_move
    \/ start_six_seven_trend

(***************************************************************************)
(* The facade's data store and assets (extension_api.py).  A path is the   *)
(* sequence of its components below the root.                              *)
(***************************************************************************)
ApiIds == {"a", "b"}

\* The keys and file names a handler passes: plain ones, ones that climb with
\* "..", and absolute ones.
Names ==
    { [abs |-> FALSE, parts |-> <<"k">>],
      [abs |-> FALSE, parts |-> <<"..", "manifest">>],
      [abs |-> FALSE, parts |-> <<"..", "..", "b", "manifest">>],
      [abs |-> FALSE, parts |-> <<"..", "..", "a", "data", "k">>],
      [abs |-> TRUE, parts |-> <<"etc", "k">>] }

\* f"{key}.json"
Json == [k |-> "k.json", manifest |-> "manifest.json"]

JsonName(key) ==
    [key EXCEPT !.parts = [key.parts EXCEPT ![Len(key.parts)] =
                              Json[key.parts[Len(key.parts)]]]]

\* The file the operating system opens for a path: ".." climbs one directory.
RECURSIVE Resolve(_, _)
Resolve(parts, done) ==
    IF parts = <<>> THEN done
    ELSE IF Head(parts) = ".."
         THEN Resolve(Tail(parts),
                      IF done = <<>> THEN done ELSE SubSeq(done, 1, Len(done) - 1))
         ELSE Resolve(Tail(parts), Append(done, Head(parts)))

\* pathlib's "/": an absolute right operand replaces the left one.
Join(base, name) ==
    Resolve(IF name.abs THEN name.parts ELSE base \o name.parts, <<>>)

extension_path(id) == <<"extensions", id>>

_data_dir(id) == extension_path(id) \o <<"data">>

Parent(path) == SubSeq(path, 1, Len(path) - 1)

Inside(path, dir) ==
    /\ Len(path) > Len(dir)
    /\ SubSeq(path, 1, Len(dir)) = dir

NoAccess == [op |-> "none", id |-> "a", paths |-> {}]

ApiInit ==
    /\ dirs = {<<>>, <<"etc">>, <<"extensions">>} \cup
              {extension_path(id) : id \in ApiIds}
    /\ files = {extension_path(id) \o <<"manifest.json">> : id \in ApiIds}
    /\ access = NoAccess

\* get_data: makes the data directory, then reads the key's file if it exists.
get_data ==
    /\ ApiFrame
    /\ \E id \in ApiIds, key \in Names :
         LET data_file == Join(_data_dir(id), JsonName(key))
         IN  /\ dirs' = dirs \cup {_data_dir(id)}
             /\ access' = [op |-> "get_data", id |-> id,
                           paths |-> IF data_file \in files THEN {data_file} ELSE {}]
    /\ UNCHANGED files

\* set_data: makes the data directory, then writes the key's file; an open
\* that fails (no such directory) returns False.
set_data ==
    /\ ApiFrame
    /\ \E id \in ApiIds, key \in Names :
         LET data_file == Join(_data_dir(id), JsonName(key))
             opened == Parent(data_file) \in dirs \cup {_data_dir(id)}
         IN  /\ dirs' = dirs \cup {_data_dir(id)}
             /\ files' = IF opened THEN files \cup {data_file} ELSE files
             /\ access' = [op |-> "set_data", id |-> id,
                           paths |-> IF opened THEN {data_file} ELSE {}]

\* delete_data: unlinks the key's file if it exists; a relative key is looked
\* up through the data directory, which this call does not make.
delete_data ==
    /\ ApiFrame
    /\ \E id \in ApiIds, key \in Names :
         LET data_file == Join(_data_dir(id), JsonName(key))
             exists == /\ data_file \in files
                       /\ key.abs \/ _data_dir(id) \in dirs
         IN  /\ files' = IF exists THEN files \ {data_file} ELSE files
             /\ access' = [op |-> "delete_data", id |-> id,
                           paths |-> IF exists THEN {data_file} ELSE {}]
    /\ UNCHANGED dirs

\* get_all_data: makes the data directory and reads every *.json file in it.
get_all_data ==
    /\ ApiFrame
    /\ \E id \in ApiIds :
         /\ dirs' = dirs \cup {_data_dir(id)}
         /\ access' = [op |-> "get_all_data", id |-> id,
                       paths |-> {f \in files : Parent(f) = _data_dir(id)}]
    /\ UNCHANGED files

\* get_asset_path
get_asset_path(id, filename) == Join(extension_path(id), filename)

\* read_asset, and read_json_asset which parses what read_asset returns
read_asset ==
    /\ ApiFrame
    /\ \E id \in ApiIds, filename \in Names, json \in BOOLEAN :
         LET asset_path == get_asset_path(id, IF json THEN JsonName(filename)
                                                      ELSE filename)
         IN  access' = [op |-> IF json THEN "read_json_asset" ELSE "read_asset",
                        id |-> id,
                        paths |-> IF asset_path \in files THEN {asset_path} ELSE {}]
    /\ UNCHANGED <<dirs, files>>

ApiNext ==
    \/ get_data
    \/ set_data
    \/ delete_data
    \/ get_all_data
    \/ read_asset

(***************************************************************************)
(* The WebSocket clients and broadcast (main.py).  broadcast awaits each    *)
(* send, and other coroutines run while it waits.                          *)
(***************************************************************************)
Clients == {"c1", "c2", "c3"}

Range(seq) == {seq[k] : k \in 1..Len(seq)}

\* list.remove(x)
Remove(seq, x) == SelectSeq(seq, LAMBDA y : y # x)

NoCast == [pc |-> "idle", i |-> 0, start |-> {}, sent |-> {}, failed |-> {},
           stayed |-> {}, raised |-> FALSE]

CastInit ==
    /\ connected_clients = <<>>
    /\ alive = {}
    /\ cast = NoCast

\* websocket_endpoint, up to its receive loop: accept and append
websocket_endpoint ==
    /\ CastFrame
    /\ \E websocket \in Clients \ Range(connected_clients) :
         /\ connected_clients' = Append(connected_clients, websocket)
         /\ alive' = alive \cup {websocket}
    /\ UNCHANGED cast

\* A client's connection goes down.
ConnectionLost ==
    /\ CastFrame
    /\ \E websocket \in alive :
         /\ alive' = alive \ {websocket}
         /\ cast' = [cast EXCEPT !.stayed = @ \ {websocket}]
    /\ UNCHANGED connected_clients

\* websocket_endpoint: receive_json raises WebSocketDisconnect and the
\* handler removes the client from the list.
WebSocketDisconnect ==
    /\ CastFrame
    /\ \E websocket \in Range(connected_clients) \ alive :
         connected_clients' = Remove(connected_clients, websocket)
    /\ UNCHANGED <<alive, cast>>

\* broadcast is called: the for loop takes an iterator over the list itself.
broadcast ==
    /\ CastFrame
    /\ cast.pc # "sending"
    /\ cast' = [NoCast EXCEPT !.pc = "sending",
                              !.start = Range(connected_clients),
                              !.stayed = Range(connected_clients) \cap alive]
    /\ UNCHANGED <<connected_clients, alive>>

\* One turn of broadcast's loop: the iterator yields the element at its
\* index in the list as it is now, or ends the loop; send_json on a
\* connection that is down raises and the bare except swallows it.
send_json ==
    /\ CastFrame
    /\ cast.pc = "sending"
    /\ IF cast.i < Len(connected_clients)
       THEN LET client == connected_clients[cast.i + 1]
            IN  cast' = [cast EXCEPT
                           !.i = cast.i + 1,
                           !.sent = IF client \in alive THEN @ \cup {client} ELSE @,
                           !.failed = IF client \in alive THEN @ ELSE @ \cup {client}]
       ELSE cast' = [cast EXCEPT !.pc = "done"]
    /\ UNCHANGED <<connected_clients, alive>>

CastNext ==
    \/ websocket_endpoint
    \/ ConnectionLost
    \/ WebSocketDisconnect
    \/ broadcast
    \/ send_json

(***************************************************************************)
(* parse_json_response (chat.py).  A text is a sequence of characters; the *)
(* only JSON objects over the alphabet are "{", spaces, "}".               *)
(***************************************************************************)
MaxText == 4          \* length of a reply

Chars == {" ", "a", "{", "}"}

ReplyTexts == UNION {[1..n -> Chars] : n \in 0..MaxText}

\* The message used when the reply gives none.
NotSure == <<"I'm not sure what to say!">>

NotParsed == [message |-> <<>>, emotion |-> "none", actions |-> <<"none">>]

\* text.strip()
RECURSIVE LStrip(_)
LStrip(text) ==
    IF text # <<>> /\ Head(text) = " " THEN LStrip(Tail(text)) ELSE text

RECURSIVE RStrip(_)
RStrip(text) ==
    IF text # <<>> /\ text[Len(text)] = " "
    THEN RStrip(SubSeq(text, 1, Len(text) - 1)) ELSE text

StripText(text) == RStrip(LStrip(text))

\* text.find(c) and text.rfind(c): positions count from 0, -1 when absent
Find(text, c) ==
    IF \E i \in 1..Len(text) : text[i] = c
    THEN (CHOOSE i \in 1..Len(text) :
              text[i] = c /\ \A j \in 1..(i - 1) : text[j] # c) - 1
    ELSE -1

RFind(text, c) ==
    IF \E i \in 1..Len(text) : text[i] = c
    THEN (CHOOSE i \in 1..Len(text) :
              text[i] = c /\ \A j \in (i + 1)..Len(text) : text[j] # c) - 1
    ELSE -1

\* json.loads(json_str) succeeds on "{", spaces, "}" and gives an empty object
IsJsonObject(json_str) ==
    /\ Len(json_str) >= 2
    /\ json_str[1] = "{"
    /\ json_str[Len(json_str)] = "}"
    /\ \A i \in 2..(Len(json_str) - 1) : json_str[i] = " "

\* The result for a text that has been stripped already.
ParseStripped(text) ==
    LET start == Find(text, "{")
        end == RFind(text, "}") + 1
    IN  IF start >= 0 /\ end > start /\ IsJsonObject(SubSeq(text, start + 1, end))
        THEN [message |-> NotSure, emotion |-> "happy", actions |-> <<>>]
        ELSE [message |-> IF text # <<>> THEN text ELSE NotSure,
              emotion |-> "thinking", actions |-> <<>>]

\* parse_json_response without its first statement, text = text.strip()
parse_unstripped(text) == ParseStripped(text)

parse_json_response(text) == ParseStripped(StripText(text))

ParseInit ==
    /\ response_text \in ReplyTexts
    /\ parsed = NotParsed

\* No reply is being parsed.
ParseIdle ==
    /\ response_text = <<>>
    /\ parsed = NotParsed

\* chat(): parsed = parse_json_response(response_text)
Parse ==
    /\ ParseFrame
    /\ parsed = NotParsed
    /\ parsed' = parse_json_response(response_text)
    /\ UNCHANGED response_text

ParseNext ==
    \/ Parse

(***************************************************************************)
(* Snapshots of the folders of registered extensions, reduced to the       *)
(* manifest each snapshot holds (extension_versions.py on the folders of   *)
(* plugin_loader.py).                                                      *)
(***************************************************************************)
SnapInit == snapshots = [d \in Dirs |-> {}]

\* backup_extension(id): the snapshot holds a copy of the folder's manifest.
BackupFolder ==
    /\ SnapFrame
    /\ pc = "up"
    /\ \E d \in Dirs :
         /\ disk[d].kind = "ok"
         /\ snapshots' = [snapshots EXCEPT ![d] = @ \cup {disk[d]}]
    /\ discovered' = NoDiscovery
    /\ toggled' = NoToggle
    /\ dispatched' = NoDispatch
    /\ UNCHANGED <<pc, disk, extensions, voice_triggers, custom_actions, deploys, off>>

\* restore_extension(id, v), returning True: the folder's files are replaced
\* by those of the snapshot (the safety snapshot is taken first); the
\* registry is not told.
RestoreFolder ==
    /\ SnapFrame
    /\ pc = "up"
    /\ \E d \in Dirs : \E manifest \in snapshots[d] :
         /\ snapshots' = [snapshots EXCEPT ![d] =
                             IF disk[d].kind = "ok" THEN @ \cup {disk[d]} ELSE @]
         /\ disk' = [disk EXCEPT ![d] = manifest]
    /\ discovered' = NoDiscovery
    /\ toggled' = NoToggle
    /\ dispatched' = NoDispatch
    /\ UNCHANGED <<pc, extensions, voice_triggers, custom_actions, deploys, off>>

FlagNext ==
    \/ init_extensions
    \/ set_extension_enabled
    \/ BackupFolder
    \/ RestoreFolder

(***************************************************************************)
(* Properties of the registry.                                             *)
(***************************************************************************)

\* C3: when a discovery returns, the Registry, the voice-trigger table and the
\* action-routing table hold only entries built from the extension
\* directories present during that discovery.
DiscoveryRebuildsTables ==
    discovered.fresh =>
        /\ \A i \in Loaded :
              /\ disk[extensions[i].path].kind = "ok"
              /\ disk[extensions[i].path].id = i
              /\ disk[extensions[i].path].enabled = extensions[i].enabled
        /\ \A k \in 1..Len(voice_triggers) :
              \E d \in Dirs :
                  /\ disk[d].kind = "ok"
                  /\ Phrase(d) = voice_triggers[k].phrase
                  /\ disk[d].id = voice_triggers[k].extension_id
        /\ \A i \in Ids :
              custom_actions[i] # "none" =>
                  /\ disk[custom_actions[i]].kind = "ok"
                  /\ disk[custom_actions[i]].handler
                  /\ disk[custom_actions[i]].id = i

\* A discovery has returned and an extension that was registered before it is
\* no longer registered.
DiscoveryDroppedStale ==
    /\ discovered.fresh
    /\ \E i \in discovered.before : ~extensions[i].loaded

DisabledNotDispatched == ~dispatched.wasOff

(***************************************************************************)
(* The memory store (memories.py) and the action dispatcher                *)
(* (chat.py, handle_actions).                                              *)
(***************************************************************************)
MaxActions == 2       \* length of the action list of one handle_actions call
MaxMemories == 2      \* limits.max_memories of the configuration

\* Field values of an action object: strings, JSON null / a missing key, and
\* a value of another type (a number).
Null == "<null>"

Number == "<number>"

Facts == {"blue", "Blue ", "red"}

\* memory.strip()
Strip(m) == IF m = "Blue " THEN "Blue" ELSE m

\* memory.lower().strip()
LowerStrip(m) == IF m \in {"Blue ", "Blue"} THEN "blue" ELSE m

\* memory.lower()
LowerFact(m) == IF m = "Blue " THEN "blue " ELSE IF m = "Blue" THEN "blue" ELSE m

\* topic_lower in memory.lower(): substring, on the facts of the model
TopicIn(topic, m) ==
    \/ LowerFact(topic) = LowerFact(m)
    \/ LowerFact(topic) = "blue" /\ LowerFact(m) = "blue "

\* The last n elements of a list: list[-n:]
LastN(list, n) ==
    IF n = 0 \/ Len(list) <= n THEN list
    ELSE SubSeq(list, Len(list) - n + 1, Len(list))

\* save_memory(memory): the list afterwards
save_memory(mems, m) ==
    IF \E i \in 1..Len(mems) : LowerStrip(mems[i]) = LowerStrip(m)
    THEN mems
    ELSE LastN(Append(mems, Strip(m)), MaxMemories)

\* forget_memory(topic): the list afterwards
forget_memory(mems, topic) ==
    IF \E i \in 1..Len(mems) : TopicIn(topic, mems[i])
    THEN LET i == CHOOSE i \in 1..Len(mems) :
                     /\ TopicIn(topic, mems[i])
                     /\ \A j \in 1..(i - 1) : ~TopicIn(topic, mems[j])
         IN  SubSeq(mems, 1, i - 1) \o SubSeq(mems, i + 1, Len(mems))
    ELSE mems

\* The action objects the dispatcher is given.  NotADict is an element of the
\* actions array that is not an object (null, a string).
NotADict == [type |-> "<not a dict>", arg |-> Null]

ActionObjects ==
    [type : {"remember", "forget"}, arg : {"blue", "Blue ", Null, Number}]
    \cup [type : {"toggle_power"}, arg : {"a", "zzz", Null}, enabled : BOOLEAN]
    \cup [type : {"end_conversation"}, arg : {Null}]
    \cup {NotADict}

ActionLists == UNION {[1..n -> ActionObjects] : n \in 0..MaxActions}

\* Does handling the action raise?  action.get on a non-dict, .lower() on a
\* number, and power_name.lower() on None once an extension is compared.
Raises(a) ==
    \/ a = NotADict
    \/ a.type \in {"remember", "forget"} /\ a.arg = Number
    \/ a.type = "toggle_power" /\ a.arg = Null /\ Loaded # {}

DispInit ==
    /\ memories = <<>>
    /\ actions = <<>>
    /\ idx = 0
    /\ run = "idle"
    /\ handled = {}
    /\ end_conversation = FALSE

\* handle_actions(actions) is called: the results are initialised and every
\* action is broadcast (broadcast_action swallows every exception).
handle_actions ==
    /\ DispFrame
    /\ pc = "up"
    /\ run # "running"
    /\ \E list \in ActionLists :
         /\ actions' = list
         /\ run' = IF list = <<>> THEN "returned" ELSE "running"
    /\ idx' = 1
    /\ handled' = {}
    /\ end_conversation' = FALSE
    /\ UNCHANGED <<memories, regVars>>

\* One turn of "for action in actions" in handle_actions.
HandleOneAction ==
    /\ DispFrame
    /\ run = "running"
    /\ LET a == actions[idx]
       IN  IF Raises(a)
           THEN /\ run' = "raised"
                /\ UNCHANGED <<memories, idx, handled, end_conversation, regVars>>
           ELSE /\ handled' = handled \cup {idx}
                /\ idx' = idx + 1
                /\ run' = IF idx = Len(actions) THEN "returned" ELSE "running"
                /\ memories' =
                     IF a.type = "remember" /\ a.arg # Null
                     THEN save_memory(memories, a.arg)
                     ELSE IF a.type = "forget" /\ a.arg # Null
                     THEN forget_memory(memories, a.arg)
                     ELSE memories
                /\ end_conversation' = (end_conversation \/ a.type = "end_conversation")
                /\ IF a.type = "toggle_power" /\ a.arg \in Ids
                   THEN /\ \E written \in BOOLEAN : SetEnabled(a.arg, a.enabled, written)
                        /\ discovered' = NoDiscovery
                        /\ UNCHANGED <<pc, voice_triggers, custom_actions,
                                       deploys, dispatched>>
                   ELSE UNCHANGED regVars
    /\ UNCHANGED actions

DispNext ==
    \/ init_extensions
    \/ handle_actions
    \/ HandleOneAction

(***************************************************************************)
(* The conversation history (chat.py, chat and clear_conversation).        *)
(***************************************************************************)
MaxMessages == 3      \* limits.max_conversation_messages of the configuration
MaxSent == 7          \* entries appended in one behaviour

Messages == {"hi", "bye"}

Replies == {"hello", "zzz"}

NoResponse == "none"

ChatInit ==
    /\ conversation = <<>>
    /\ in_flight = FALSE
    /\ sent = 0
    /\ response = NoResponse

Entry(role, content, n) == [role |-> role, content |-> content, n |-> n]

\* POST /api/chat up to the call of Claude: without an API key nothing is
\* stored; otherwise the user entry is appended and the history is trimmed.
chat ==
    /\ ChatFrame
    /\ ~in_flight
    /\ sent < MaxSent
    /\ \E has_key \in BOOLEAN, message \in Messages :
         IF ~has_key
         THEN /\ response' = "need_key"
              /\ UNCHANGED <<conversation, in_flight, sent>>
         ELSE /\ conversation' =
                    LET appended == Append(conversation, Entry("user", message, sent + 1))
                    IN  IF Len(appended) > MaxMessages
                        THEN LastN(appended, MaxMessages)
                        ELSE appended
              /\ in_flight' = TRUE
              /\ sent' = sent + 1
              /\ response' = NoResponse

\* The rest of POST /api/chat: Claude answers and the actions are handled,
\* then the assistant entry is appended and the history saved; or one of
\* them raises and the request returns without an assistant entry.
chat_reply ==
    /\ ChatFrame
    /\ in_flight
    /\ in_flight' = FALSE
    /\ \E outcome \in {"reply", "need_key", "confused"}, text \in Replies :
         /\ response' = outcome
         /\ IF outcome = "reply"
            THEN /\ conversation' =
                       Append(conversation, Entry("assistant", text, sent + 1))
                 /\ sent' = sent + 1
            ELSE UNCHANGED <<conversation, sent>>

\* DELETE /api/chat/{conversation_id}
clear_conversation ==
    /\ ChatFrame
    /\ ~in_flight
    /\ conversation # <<>>
    /\ conversation' = <<>>
    /\ response' = NoResponse
    /\ UNCHANGED <<in_flight, sent>>

ChatNext ==
    \/ chat
    \/ chat_reply
    \/ clear_conversation

(***************************************************************************)
(* Feature requests (extension_request.py).  A title is the list of its    *)
(* words; one title is a substring of another when its words are a run of  *)
(* the other's words.                                                      *)
(***************************************************************************)
MaxFilings == 3       \* issues created in one behaviour
MaxLoggedRequests == 30

Titles ==
    { <<"Add", "rainbow", "mode">>,
      <<"add", "a", "rainbow", "mode">>,
      <<"rainbow", "mode">>,
      <<"dance">> }

LowerWord(w) == IF w = "Add" THEN "add" ELSE w

\* title.lower().strip()
LowerTitle(t) == [i \in 1..Len(t) |-> LowerWord(t[i])]

\* a in b, for strings
Substring(a, b) ==
    \E k \in 0..(Len(b) - Len(a)) : \A i \in 1..Len(a) : b[k + i] = a[i]

\* _sanitize_extension_name(name): lowercase, words joined by underscores
sanitize_extension_name(t) == LowerTitle(t)

\* extension_exists(title)
extension_exists(t) == sanitize_extension_name(t) \in built

NoRequest == [title |-> <<>>, status |-> "none", issue_number |-> 0]

\* The test of find_similar_request on one logged request.
Similar(t, req) ==
    /\ req.status \in {"pending", "in_progress"}
    /\ \/ LowerTitle(t) = LowerTitle(req.title)
       \/ Substring(LowerTitle(t), LowerTitle(req.title))
       \/ Substring(LowerTitle(req.title), LowerTitle(t))

\* find_similar_request(title, description): the first similar request
\* decides; NoRequest stands for None.
find_similar_request(t) ==
    IF \E i \in 1..Len(requests) : Similar(t, requests[i])
    THEN LET i == CHOOSE i \in 1..Len(requests) :
                     /\ Similar(t, requests[i])
                     /\ \A j \in 1..(i - 1) : ~Similar(t, requests[j])
         IN  IF extension_exists(requests[i].title) THEN requests[i] ELSE NoRequest
    ELSE NoRequest

\* add_extension_request(title, description, issue_number, issue_url)
add_extension_request(t, number) ==
    LastN(Append(requests, [title |-> t, status |-> "pending",
                            issue_number |-> number]),
          MaxLoggedRequests)

\* The words of a title that carry meaning, in lower case.
StopWords == {"a"}

Meaningful(t) == {LowerWord(t[i]) : i \in 1..Len(t)} \ StopWords

\* The open requests whose title says the same as t.
OpenDuplicates(t) ==
    {i \in 1..Len(requests) :
        /\ requests[i].status \in {"pending", "in_progress"}
        /\ Meaningful(requests[i].title) = Meaningful(t)}

NoResult ==
    [title |-> <<>>, success |-> FALSE, duplicate |-> FALSE, existing_issue |-> 0,
     posted |-> FALSE, open |-> {}]

ReqInit ==
    /\ requests = <<>>
    /\ built = {}
    /\ issues = 0
    /\ result = NoResult

\* submit_extension_request and create_extension_issue: the feature switch
\* and the token are checked, then the log is searched, then the issue is
\* created and logged.
create_extension_issue ==
    /\ ReqFrame
    /\ issues < MaxFilings
    /\ \E t \in Titles, allowed \in BOOLEAN, github_ok \in BOOLEAN :
         LET existing == find_similar_request(t)
             filed == [NoResult EXCEPT !.title = t, !.open =
                          {requests[i].issue_number : i \in OpenDuplicates(t)}]
         IN  IF ~allowed
             THEN /\ result' = NoResult
                  /\ UNCHANGED <<requests, issues>>
             ELSE IF existing # NoRequest
             THEN /\ result' = [filed EXCEPT !.duplicate = TRUE,
                                             !.existing_issue = existing.issue_number]
                  /\ UNCHANGED <<requests, issues>>
             ELSE IF ~github_ok
             THEN /\ result' = [filed EXCEPT !.posted = TRUE]
                  /\ UNCHANGED <<requests, issues>>
             ELSE /\ issues' = issues + 1
                  /\ requests' = add_extension_request(t, issues + 1)
                  /\ result' = [filed EXCEPT !.posted = TRUE, !.success = TRUE]
    /\ UNCHANGED built

\* The automation that answers an issue commits the extension's folder.
BuildExtension ==
    /\ ReqFrame
    /\ \E i \in 1..Len(requests) :
         /\ ~extension_exists(requests[i].title)
         /\ built' = built \cup {sanitize_extension_name(requests[i].title)}
    /\ UNCHANGED <<requests, issues, result>>

ReqNext ==
    \/ create_extension_issue
    \/ BuildExtension

\* C18: after a discovery any two records of the returned list have
\* different ids, also when two folders declare the same id.
DiscoveredIdsUnique ==
    discovered.fresh =>
        \A i, j \in 1..Len(discovered.list) :
            i # j => discovered.list[i].id # discovered.list[j].id

\* C18, as the code has it: the Registry holds one record for each id of the
\* returned list, and it is the record of the last folder that declares the id.
RegistryKeepsLastOfId ==
    discovered.fresh =>
        /\ Loaded = {discovered.list[k].id : k \in 1..Len(discovered.list)}
        /\ \A k \in 1..Len(discovered.list) :
             (\A j \in (k + 1)..Len(discovered.list) :
                  discovered.list[j].id # discovered.list[k].id)
                 => extensions[discovered.list[k].id].path = discovered.list[k].path

SameIdTwice ==
    /\ discovered.fresh
    /\ Len(discovered.list) = 2
    /\ discovered.list[1].id = discovered.list[2].id

\* C23: every registered extension's in-memory enabled flag equals the
\* enabled field of its manifest on disk, after any sequence of set_enabled,
\* backup and restore calls.
FlagMatchesManifest ==
    \A i \in Loaded :
        disk[extensions[i].path].kind = "ok" =>
            extensions[i].enabled = disk[extensions[i].path].enabled

\* C24: every entry of the voice-trigger table and of the action-routing
\* table refers to an extension id that is in the Registry.
TablesReferToRegistry ==
    /\ \A i \in 1..Len(voice_triggers) :
           extensions[voice_triggers[i].extension_id].loaded
    /\ \A id \in Ids : custom_actions[id] # "none" => extensions[id].loaded

(***************************************************************************)
(* Properties of the version store.                                        *)
(***************************************************************************)

\* C1: after backup, a change of the live tree from C1 to C2, a second backup
\* and restore of the snapshot of C1, the live content is C1; after a
\* following restore of the last entry of the list, the live content is C2.
RollbackRoundTrip ==
    /\ rt.stage = 4 => live = rt.c1
    /\ rt.stage = 5 => live = rt.c2

\* C2: after six or more successive backup calls the list has exactly five
\* entries, the five most recently created snapshots, oldest first.
CapAfterSixBackups ==
    calls >= 6 =>
        /\ Len(versions) = MaxVersions
        /\ \A i \in 1..Len(versions) :
              versions[i].seq = created - MaxVersions + i

\* C5: whenever a restore call has changed the live tree, the list holds a
\* snapshot taken by that call whose content is the pre-restore live content.
SafetySnapshotTaken ==
    (last.op = "restore" /\ last.before.exists /\ live # last.before) =>
        \E i \in 1..Len(versions) :
            /\ last.seq # 0
            /\ versions[i].seq = last.seq
            /\ backups[versions[i].version_id] = last.before

\* C11: when restore(E, v) returns false, the version list of E is what it
\* was before the call.
FailedRestoreKeepsIndex ==
    (last.op = "restore" /\ last.ret = 0) => ~last.touched

\* C9: at most one snapshot of the extension is current.
AtMostOneCurrent ==
    Cardinality({i \in 1..Len(versions) : versions[i].is_current}) <= 1

\* C10: no two snapshots in the list share a version_id.
UniqueVersionIds ==
    \A i, j \in 1..Len(versions) :
        i # j => versions[i].version_id # versions[j].version_id




VerIdle ==
    /\ now = 1
    /\ live = EmptyTree
    /\ backups = [t \in Times |-> NoDir]
    /\ versions = <<>>
    /\ ops = 0
    /\ changes = 0
    /\ statusCalls = 0
    /\ created = 0
    /\ calls = 0
    /\ last = NoCall
    /\ rt = NoScenario
    /\ power_undone = NoUndo




(***************************************************************************)
(* Remembering and forgetting facts, one action at a time (chat.py,        *)
(* memories.py).                                                           *)
(***************************************************************************)
MemFacts == Facts \cup {"green", "pink"}

NoSaid == [op |-> "none", fact |-> "", twice |-> FALSE]

MemInit == said = NoSaid

\* handle_actions, type "remember" with a fact that is a string
remember ==
    /\ MemFrame
    /\ \E fact \in MemFacts :
         /\ memories' = save_memory(memories, fact)
         /\ said' = [op |-> "remember", fact |-> fact,
                     twice |-> /\ said.op = "remember"
                               /\ LowerStrip(said.fact) = LowerStrip(fact)]

\* handle_actions, type "forget"
forget ==
    /\ MemFrame
    /\ \E topic \in MemFacts :
         /\ \E i \in 1..Len(memories) : TopicIn(topic, memories[i])
         /\ memories' = forget_memory(memories, topic)
    /\ said' = NoSaid

\* update_memory(topic, new_fact): the list afterwards.  The first memory that
\* contains the topic is replaced by the new fact; without one the new fact is
\* saved as by save_memory.
update_memory(mems, topic, new_fact) ==
    IF \E i \in 1..Len(mems) : TopicIn(topic, mems[i])
    THEN LET i == CHOOSE i \in 1..Len(mems) :
                     /\ TopicIn(topic, mems[i])
                     /\ \A j \in 1..(i - 1) : ~TopicIn(topic, mems[j])
         IN  [mems EXCEPT ![i] = Strip(new_fact)]
    ELSE save_memory(mems, new_fact)

\* handle_actions, type "update_memory"
update ==
    /\ MemFrame
    /\ \E topic \in MemFacts, new_fact \in MemFacts :
         memories' = update_memory(memories, topic, new_fact)
    /\ said' = NoSaid

\* delete_memory(index)
delete_memory ==
    /\ MemFrame
    /\ \E index \in 1..Len(memories) :
         memories' = SubSeq(memories, 1, index - 1) \o
                     SubSeq(memories, index + 1, Len(memories))
    /\ said' = NoSaid

MemNext ==
    \/ remember
    \/ forget
    \/ update
    \/ delete_memory

\* C21: an undo_power action on an extension without a version snapshot
\* reports success false with the error "No previous version to restore" and
\* leaves the live tree, the snapshot store and the version list as they were.
UndoWithoutVersionsFails ==
    (power_undone.called /\ ~power_undone.had) =>
        /\ ~power_undone.success
        /\ power_undone.error = "No previous version to restore"
        /\ power_undone.same

UndoneWithoutVersions ==
    /\ power_undone.called
    /\ ~power_undone.had
    /\ changes > 0

\* C22: restore(E, v) of a snapshot v of the version list returns true and
\* leaves the live tree, hidden files aside, equal to the content of snapshot
\* v, wherever v is in the list and however many snapshots are retained.
RestoreOfListedSnapshot ==
    (last.op = "restore" /\ last.listed) =>
        /\ last.ret = 1
        /\ live.exists /\ backups[last.vid].exists
        /\ live.f = backups[last.vid].f
        /\ live.d = backups[last.vid].d

\* C25: each entry of the version list is backed by its own existing snapshot
\* directory, and each snapshot directory has an entry in the list.
SnapshotsMatchIndex ==
    /\ \A i \in 1..Len(versions) : backups[versions[i].version_id].exists
    /\ \A i, j \in 1..Len(versions) :
           i # j => versions[i].version_id # versions[j].version_id
    /\ \A t \in Times :
           backups[t].exists => \E i \in 1..Len(versions) : versions[i].version_id = t

(***************************************************************************)
(* Wiring of the broadcast function into the facades.  A handler.py builds *)
(* its facade at import time (api = ExtensionAPI(...)), and the            *)
(* constructor files the new instance in _api_instances under the          *)
(* extension's id with _broadcast_func = None ("bare").                    *)
(* set_broadcast_function gives the function to the instances filed at the *)
(* time of the call ("wired").  _speak_func is never set: speak falls back *)
(* to broadcast.                                                           *)
(***************************************************************************)
HandlerIds == {"cat_mode", "dog_mode", "snake_game"}

NoFacadeCall == [called |-> FALSE, id |-> "", method |-> "", passed |-> FALSE]

WireInit ==
    /\ handler_files \in (SUBSET HandlerIds) \ {{}}
    /\ _api_instances = [id \in HandlerIds |-> "none"]
    /\ started = FALSE
    /\ facade_call = NoFacadeCall

WireIdle ==
    /\ handler_files = {}
    /\ _api_instances = [id \in HandlerIds |-> "none"]
    /\ started = FALSE
    /\ facade_call = NoFacadeCall

\* Executing the handler modules of the folders on disk: each builds a new
\* facade, which replaces the one filed under its id.
load_extension_handler(instances) ==
    [id \in HandlerIds |-> IF id \in handler_files THEN "bare" ELSE instances[id]]

set_broadcast_function(instances) ==
    [id \in HandlerIds |-> IF instances[id] = "none" THEN "none" ELSE "wired"]

startup_event ==
    /\ WireFrame
    /\ ~started
    /\ _api_instances' = set_broadcast_function(load_extension_handler(_api_instances))
    /\ started' = TRUE
    /\ facade_call' = NoFacadeCall
    /\ UNCHANGED handler_files

\* A new extension folder with a handler appears while the server runs.
InstallHandler ==
    /\ WireFrame
    /\ started
    /\ \E id \in HandlerIds \ handler_files : handler_files' = handler_files \cup {id}
    /\ facade_call' = NoFacadeCall
    /\ UNCHANGED <<_api_instances, started>>

reload_handlers ==
    /\ WireFrame
    /\ started
    /\ _api_instances' = load_extension_handler(_api_instances)
    /\ facade_call' = NoFacadeCall
    /\ UNCHANGED <<handler_files, started>>

\* ExtensionAPI.broadcast: the message goes out only when the facade has
\* the function.
ExtensionAPI_broadcast(id, method) ==
    [called |-> TRUE, id |-> id, method |-> method,
     passed |-> _api_instances[id] = "wired"]

facade_broadcast ==
    /\ WireFrame
    /\ \E id \in HandlerIds :
         /\ _api_instances[id] # "none"
         /\ facade_call' = ExtensionAPI_broadcast(id, "broadcast")
    /\ UNCHANGED <<handler_files, _api_instances, started>>

\* _speak_func is None: the fallback broadcasts a speak event.
speak ==
    /\ WireFrame
    /\ \E id \in HandlerIds :
         /\ _api_instances[id] # "none"
         /\ facade_call' = ExtensionAPI_broadcast(id, "speak")
    /\ UNCHANGED <<handler_files, _api_instances, started>>

set_mode ==
    /\ WireFrame
    /\ \E id \in HandlerIds :
         /\ _api_instances[id] # "none"
         /\ facade_call' = ExtensionAPI_broadcast(id, "set_mode")
    /\ UNCHANGED <<handler_files, _api_instances, started>>

WireNext ==
    \/ startup_event
    \/ InstallHandler
    \/ reload_handlers
    \/ facade_broadcast
    \/ speak
    \/ set_mode

\* C29: once the broadcast function has been wired in at startup, every
\* broadcast, speak or set_mode call made through the facade of a loaded
\* extension is passed on to the broadcast channel, also through facades
\* created after startup.
FacadeCallsArePassedOn ==
    (started /\ facade_call.called) => facade_call.passed

\* C30: after any sequence of panel_opened, panel_closed, close_panel and
\* emergency_stop messages, game_active is true only if the recorded active
\* panel is a panel of type game.
GameActiveOnlyWithGamePanel ==
    game_active => active_panel = "game"

(***************************************************************************)
(* Properties of the dispatcher.                                           *)
(***************************************************************************)

\* C6: when an action of the list fails, handle_actions does not raise and
\* still deals with every later action of the list.
DispatcherNeverRaises ==
    /\ run # "raised"
    /\ run = "returned" => handled = 1..Len(actions)

(***************************************************************************)
(* Properties of the conversation history.                                 *)
(***************************************************************************)

\* C7: after every append, of a user entry or of an assistant entry, the
\* conversation holds at most limits.max_conversation_messages entries.
ConversationTrimmed == Len(conversation) <= MaxMessages

\* C27: the history, as it is handed to Claude and as it is stored, begins
\* with a user entry and alternates user, assistant.
ConversationAlternates ==
    \A i \in 1..Len(conversation) :
        conversation[i].role = IF i % 2 = 1 THEN "user" ELSE "assistant"

(***************************************************************************)
(* Properties of the feature requests.                                     *)
(***************************************************************************)

\* C8: a filing whose title says the same as an open logged request returns
\* duplicate = true with that request's issue number, and no issue is
\* created.
DuplicateRequestSuppressed ==
    result.open # {} =>
        /\ result.duplicate
        /\ result.existing_issue \in result.open
        /\ ~result.posted

(***************************************************************************)
(* Properties of the motors, Robot State and the emergency stop.           *)
(***************************************************************************)

\* C13: an emergency stop, by the endpoint or by the WebSocket message, sets
\* the stop flag of the extensions, which their running loops observe.
EmergencyStopSignalsExtensions ==
    estop.kind # "none" => estop.extensions_reset

\* C14: when the emergency-stop endpoint returns, the motors have been told to
\* stop and a running timed movement or sequence has been told to cancel.
EmergencyStopStopsMotors ==
    estop.kind = "endpoint" =>
        /\ motors = "stopped"
        /\ sequence_running => sequence_cancel

\* C15: a motor command received while game_active is true does not drive
\* the motors.
GameSuppressesMotors == drive.in_game => ~drive.drove

(***************************************************************************)
(* Properties of the facade.                                               *)
(***************************************************************************)

\* C16: every file a facade call reads, writes or deletes lies inside the
\* directory of the extension that made the call, whatever the key or the
\* file name is.
FacadeStaysInside ==
    \A p \in access.paths : Inside(p, extension_path(access.id))

(***************************************************************************)
(* Properties of broadcast.                                                *)
(***************************************************************************)

\* C17: broadcast never raises, and when a send to one client has failed,
\* every other client that was connected when the broadcast began and still
\* is when it ends has been sent the message.
BroadcastBestEffort ==
    /\ ~cast.raised
    /\ (cast.pc = "done" /\ cast.failed # {}) =>
           \A client \in (cast.start \cap Range(connected_clients)) \ cast.failed :
               client \in cast.sent

\* C28: a client that stays connected for the whole of a broadcast is sent
\* the message, whatever other clients connect or disconnect meanwhile.
BroadcastReachesWhoStays ==
    cast.pc = "done" => cast.stayed \subseteq cast.sent

(***************************************************************************)
(* Properties of remembering.                                              *)
(***************************************************************************)

\* C19: after remember has been called twice in a row with the same fact,
\* compared without case and surrounding whitespace, the memory list holds
\* that fact exactly once.
RememberTwiceKeepsOne ==
    said.twice =>
        Cardinality({i \in 1..Len(memories) :
                        LowerStrip(memories[i]) = LowerStrip(said.fact)}) = 1

\* C26: the memory list holds no two entries that are equal when compared
\* without case and surrounding whitespace.
NoDuplicateMemories ==
    \A i, j \in 1..Len(memories) :
        i # j => LowerStrip(memories[i]) # LowerStrip(memories[j])

(***************************************************************************)
(* Properties of parse_json_response.                                      *)
(***************************************************************************)
NoBraces(text) == \A i \in 1..Len(text) : text[i] \notin {"{", "}"}

Spaces(n) == [i \in 1..n |-> " "]

\* C20: for a reply without "{" and "}" the parsed message is the raw reply
\* text and the actions are empty.
RawTextIsMessage ==
    (parsed # NotParsed /\ NoBraces(response_text)) =>
        /\ parsed.message = response_text
        /\ parsed.actions = <<>>

\* C20, as the code has it: for a reply without "{" and "}" the message is the
\* reply without its surrounding whitespace, or the stock message when nothing
\* is left; the emotion is "thinking" and the actions are empty.
StrippedTextIsMessage ==
    (parsed # NotParsed /\ NoBraces(response_text)) =>
        /\ parsed.actions = <<>>
        /\ parsed.emotion = "thinking"
        /\ IF \A i \in 1..Len(response_text) : response_text[i] = " "
           THEN parsed.message = NotSure
           ELSE /\ Head(parsed.message) # " "
                /\ parsed.message[Len(parsed.message)] # " "
                /\ \E m, n \in 0..Len(response_text) :
                     response_text = Spaces(m) \o parsed.message \o Spaces(n)

PaddedReplyParsed ==
    /\ parsed # NotParsed
    /\ response_text = <<" ", "a", " ", "a">>

(***************************************************************************)
(* Specifications.                                                         *)
(***************************************************************************)
\* The parts of the program that a specification does not exercise.
Rest(parts) ==
    /\ IF "versions" \in parts THEN TRUE ELSE VerIdle
    /\ IF "registry" \in parts THEN TRUE ELSE RegIdle
    /\ IF "dispatch" \in parts THEN TRUE ELSE DispInit
    /\ IF "chat" \in parts THEN TRUE ELSE ChatInit
    /\ IF "requests" \in parts THEN TRUE ELSE ReqInit
    /\ IF "robot" \in parts THEN TRUE ELSE RobotInit
    /\ IF "facade" \in parts THEN TRUE ELSE ApiInit
    /\ IF "broadcast" \in parts THEN TRUE ELSE CastInit
    /\ IF "memory" \in parts THEN TRUE ELSE MemInit
    /\ IF "parse" \in parts THEN TRUE ELSE ParseIdle
    /\ IF "snapshots" \in parts THEN TRUE ELSE SnapInit
    /\ IF "wiring" \in parts THEN TRUE ELSE WireIdle

InitVersions == VerInit /\ Rest({"versions"})

SpecVersions == InitVersions /\ [][VerNext]_vars

InitRegistry == RegInit /\ Rest({"registry"})

SpecRegistry == InitRegistry /\ [][RegNext]_vars

InitDispatch == RegInit /\ DispInit /\ Rest({"registry", "dispatch"})

SpecDispatch == InitDispatch /\ [][DispNext]_vars

InitChat == ChatInit /\ Rest({"chat"})

SpecChat == InitChat /\ [][ChatNext]_vars

InitRequests == ReqInit /\ Rest({"requests"})

SpecRequests == InitRequests /\ [][ReqNext]_vars

InitRobot == RobotInit /\ Rest({"robot"})

SpecRobot == InitRobot /\ [][RobotNext]_vars

InitFacade == ApiInit /\ Rest({"facade"})

SpecFacade == InitFacade /\ [][ApiNext]_vars

InitBroadcast == CastInit /\ Rest({"broadcast"})

SpecBroadcast == InitBroadcast /\ [][CastNext]_vars

InitMemory == MemInit /\ Rest({"memory"})

SpecMemory == InitMemory /\ [][MemNext]_vars

InitParse == ParseInit /\ Rest({"parse"})

SpecParse == InitParse /\ [][ParseNext]_vars

\* The version store of an extension of which no snapshot is taken: the live
\* tree changes or is removed, and undo_power is asked for.
UndoNext ==
    \/ Tick
    \/ ChangeLive
    \/ remove_extension
    \/ undo_power

SpecUndo == InitVersions /\ [][UndoNext]_vars

InitFlag == RegInit /\ SnapInit /\ Rest({"registry", "snapshots"})

SpecFlag == InitFlag /\ [][FlagNext]_vars

InitWiring == WireInit /\ Rest({"wiring"})

SpecWiring == InitWiring /\ [][WireNext]_vars

====
